---- MODULE Spec2Model ----
(***************************************************************************)
(* A model of examples/anyrender_objectmark/src/svg.rs: the reconstruction *)
(* of a kurbo outline from a usvg segment stream (to_bez_path), the        *)
(* flattening of a usvg tree into a list of path records (Svg::parse and   *)
(* Svg::walk, with to_affine and to_brush) and the three draw modes        *)
(* (Svg::fill, Svg::stroke, Svg::fill_stroke).                             *)
(*                                                                         *)
(* Coordinates are integers: every f32 -> f64 widening of the source is    *)
(* exact, so a point is the pair of its coordinates.  Option<T> is a       *)
(* sequence of length 0 (None) or 1 (Some).                                *)
(***************************************************************************)
EXTENDS Integers, Sequences, FiniteSets, TLC

VARIABLES
    \* to_bez_path, one command of the scan per step
    segs,                 \* path.data().segments(): the input stream
    pos,                  \* number of commands the for loop has consumed
    just_closed,          \* svg.rs:103
    most_recent_initial,  \* svg.rs:104
    local_path,           \* svg.rs:100, the BezPath under construction
    bez_pc,               \* "scan" | "returned" | "idle"
    \* Svg::parse / Svg::walk / draw modes
    input,                \* the bytes handed to parse and the tree usvg makes of them
    status,               \* "init" | "walking" | "returned" | "panicked" | "idle"
    stack,                \* the activation records of the recursive walk
    records,              \* self.0 : Vec<SvgPath>
    origin,               \* history: the tree node every push came from
    result,               \* what the caller of parse holds: None or Some(Svg)
    scene,                \* the requests the last draw call issued to its sink
    last_call             \* the last draw call: its mode and transform

bezVars == <<segs, pos, just_closed, most_recent_initial, local_path, bez_pc>>
svgVars == <<input, status, stack, records, origin, result, scene, last_call>>
vars == <<segs, pos, just_closed, most_recent_initial, local_path, bez_pc,
          input, status, stack, records, origin, result, scene, last_call>>

None == <<>>
Some(x) == <<x>>

Max(S) == CHOOSE m \in S : \A x \in S : x <= m

(***************************************************************************)
(* usvg::tiny_skia_path::PathSegment and kurbo::PathEl                     *)
(***************************************************************************)
Segment(kind, pts) == [kind |-> kind, pts |-> pts]
PathEl(el, pts) == [el |-> el, pts |-> pts]

\* The largest input stream of the scan.
MaxLen == 4

MoveTargets == {<<0, 0>>, <<10, 0>>}
LineTargets == {<<10, 0>>, <<20, 0>>}

Segments ==
    {Segment("MoveTo", <<p>>) : p \in MoveTargets}
    \cup {Segment("LineTo", <<p>>) : p \in LineTargets}
    \cup {Segment("QuadTo", <<(<<5, 5>>), (<<10, 0>>)>>)}
    \cup {Segment("CubicTo", <<(<<0, 5>>), (<<5, 5>>), (<<20, 0>>)>>)}
    \cup {Segment("Close", <<>>)}

Streams == UNION {[1..n -> Segments] : n \in 0..MaxLen}

(***************************************************************************)
(* to_bez_path: the scan state and the five match arms                     *)
(***************************************************************************)
ScanState(jc, mri, lp) ==
    [just_closed |-> jc, most_recent_initial |-> mri, local_path |-> lp]

\* svg.rs:103-104 and 100
ScanInit == ScanState(FALSE, <<0, 0>>, <<>>)

\* `if std::mem::take(&mut just_closed) { local_path.move_to(most_recent_initial) }`
Reopened(st) ==
    IF st.just_closed
      THEN Append(st.local_path, PathEl("MoveTo", <<st.most_recent_initial>>))
      ELSE st.local_path

\* Fault: the MoveTo arm reads just_closed without taking (clearing) it.
OnMoveTo_KeepsFlag(st, p) ==
    ScanState(st.just_closed, p[1], Append(Reopened(st), PathEl("MoveTo", <<p[1]>>)))

\* Fault: the MoveTo arm clears just_closed without re-opening the subpath.
OnMoveTo_NoReopen(st, p) ==
    ScanState(FALSE, p[1], Append(st.local_path, PathEl("MoveTo", <<p[1]>>)))

OnMoveTo(st, p) ==
    ScanState(FALSE, p[1], Append(Reopened(st), PathEl("MoveTo", <<p[1]>>)))

\* Fault: the LineTo arm appends straight after a ClosePath.
OnLineTo_NoReopen(st, p) ==
    ScanState(FALSE, st.most_recent_initial,
              Append(st.local_path, PathEl("LineTo", <<p[1]>>)))

OnLineTo(st, p) ==
    ScanState(FALSE, st.most_recent_initial,
              Append(Reopened(st), PathEl("LineTo", <<p[1]>>)))

OnQuadTo(st, p) ==
    ScanState(FALSE, st.most_recent_initial,
              Append(Reopened(st), PathEl("QuadTo", <<p[1], p[2]>>)))

OnCubicTo(st, p) ==
    ScanState(FALSE, st.most_recent_initial,
              Append(Reopened(st), PathEl("CurveTo", <<p[1], p[2], p[3]>>)))

OnClose(st) ==
    ScanState(TRUE, st.most_recent_initial,
              Append(st.local_path, PathEl("ClosePath", <<>>)))

\* The match of svg.rs:106-143 on one element.
ScanElt(st, elt) ==
    CASE elt.kind = "MoveTo"  -> OnMoveTo(st, elt.pts)
      [] elt.kind = "LineTo"  -> OnLineTo(st, elt.pts)
      [] elt.kind = "QuadTo"  -> OnQuadTo(st, elt.pts)
      [] elt.kind = "CubicTo" -> OnCubicTo(st, elt.pts)
      [] elt.kind = "Close"   -> OnClose(st)

RECURSIVE ScanFrom(_, _, _)
ScanFrom(st, s, i) ==
    IF i > Len(s) THEN st ELSE ScanFrom(ScanElt(st, s[i]), s, i + 1)

\* The whole function, as Svg::walk calls it.
to_bez_path(s) == ScanFrom(ScanInit, s, 1).local_path

(***************************************************************************)
(* to_bez_path as a state machine: one step per input command              *)
(***************************************************************************)
CurState == ScanState(just_closed, most_recent_initial, local_path)

SetScan(st) ==
    /\ just_closed' = st.just_closed
    /\ most_recent_initial' = st.most_recent_initial
    /\ local_path' = st.local_path
    /\ pos' = pos + 1
    /\ UNCHANGED <<segs, bez_pc>>

NextElt(kind) ==
    /\ bez_pc = "scan"
    /\ pos < Len(segs)
    /\ segs[pos + 1].kind = kind

BezMoveTo == NextElt("MoveTo") /\ SetScan(OnMoveTo(CurState, segs[pos + 1].pts)) /\ UNCHANGED svgVars
BezLineTo == NextElt("LineTo") /\ SetScan(OnLineTo(CurState, segs[pos + 1].pts)) /\ UNCHANGED svgVars
BezQuadTo == NextElt("QuadTo") /\ SetScan(OnQuadTo(CurState, segs[pos + 1].pts)) /\ UNCHANGED svgVars
BezCubicTo == NextElt("CubicTo") /\ SetScan(OnCubicTo(CurState, segs[pos + 1].pts)) /\ UNCHANGED svgVars
BezClose == NextElt("Close") /\ SetScan(OnClose(CurState)) /\ UNCHANGED svgVars

\* svg.rs:146
BezReturn ==
    /\ bez_pc = "scan"
    /\ pos = Len(segs)
    /\ bez_pc' = "returned"
    /\ UNCHANGED <<segs, pos, just_closed, most_recent_initial, local_path>>
    /\ UNCHANGED svgVars

SvgIdle ==
    /\ input = [ok |-> TRUE, tree |-> <<>>]
    /\ status = "idle"
    /\ stack = <<>>
    /\ records = <<>>
    /\ origin = <<>>
    /\ result = None
    /\ scene = <<>>
    /\ last_call = None

InitBez ==
    /\ segs \in Streams
    /\ pos = 0
    /\ just_closed = ScanInit.just_closed
    /\ most_recent_initial = ScanInit.most_recent_initial
    /\ local_path = ScanInit.local_path
    /\ bez_pc = "scan"
    /\ SvgIdle

NextBez == BezMoveTo \/ BezLineTo \/ BezQuadTo \/ BezCubicTo \/ BezClose \/ BezReturn

SpecBez == InitBez /\ [][NextBez]_vars

(***************************************************************************)
(* kurbo::Affine (coefficients [a, b, c, d, e, f]) and usvg::Transform     *)
(***************************************************************************)
Affine(a, b, c, d, e, f) == <<a, b, c, d, e, f>>

AffineIdentity == Affine(1, 0, 0, 1, 0, 0)

\* Affine * Affine
AffineMul(s, o) ==
    Affine(s[1] * o[1] + s[3] * o[2],
           s[2] * o[1] + s[4] * o[2],
           s[1] * o[3] + s[3] * o[4],
           s[2] * o[3] + s[4] * o[4],
           s[1] * o[5] + s[3] * o[6] + s[5],
           s[2] * o[5] + s[4] * o[6] + s[6])

\* Affine * Point
AffinePoint(s, p) ==
    <<s[1] * p[1] + s[3] * p[2] + s[5], s[2] * p[1] + s[4] * p[2] + s[6]>>

\* BezPath::apply_affine
apply_affine(path, s) ==
    [k \in DOMAIN path |->
        PathEl(path[k].el, [j \in DOMAIN path[k].pts |-> AffinePoint(s, path[k].pts[j])])]

Transform(sx, kx, ky, sy, tx, ty) ==
    [sx |-> sx, kx |-> kx, ky |-> ky, sy |-> sy, tx |-> tx, ty |-> ty]

TransformIdentity == Transform(1, 0, 0, 1, 0, 0)

Translate(tx, ty) == Transform(1, 0, 0, 1, tx, ty)

\* usvg's product of two transforms, the right one applied first.
TransformConcat(a, b) ==
    Transform(a.sx * b.sx + a.kx * b.ky,
              a.sx * b.kx + a.kx * b.sy,
              a.ky * b.sx + a.sy * b.ky,
              a.ky * b.kx + a.sy * b.sy,
              a.sx * b.tx + a.kx * b.ty + a.tx,
              a.ky * b.tx + a.sy * b.ty + a.ty)

to_affine(ts) == Affine(ts.sx, ts.ky, ts.kx, ts.sy, ts.tx, ts.ty)

(***************************************************************************)
(* The usvg tree.  A tree is the sequence of its nodes below the root      *)
(* group (node 0); every node names its parent, which comes before it, and *)
(* the children of a group are ordered by position.                        *)
(***************************************************************************)
Paint(kind, red, green, blue) == [kind |-> kind, red |-> red, green |-> green, blue |-> blue]

\* usvg::Fill and usvg::Stroke, as far as walk reads them; opacity in 0..255.
UFill(paint, opacity) == [paint |-> paint, opacity |-> opacity]
UStroke(paint, opacity, width) == [paint |-> paint, opacity |-> opacity, width |-> width]

Node(kind, transform, fill, stroke, data) ==
    [kind |-> kind, parent |-> 0, transform |-> transform,
     fill |-> fill, stroke |-> stroke, data |-> data]

GroupNode(ts) == Node("Group", ts, None, None, <<>>)
PathNode(fill, stroke, data) == Node("Path", TransformIdentity, fill, stroke, data)
ImageNode == Node("Image", TransformIdentity, None, None, <<>>)
TextNode == Node("Text", TransformIdentity, None, None, <<>>)

Red == Paint("Color", 255, 0, 0)
Green == Paint("Color", 0, 128, 0)
Blue == Paint("Color", 0, 0, 255)
Gradient == Paint("LinearGradient", 0, 0, 0)
Pattern == Paint("Pattern", 0, 0, 0)

OpenLine == <<Segment("MoveTo", <<(<<0, 0>>)>>), Segment("LineTo", <<(<<10, 0>>)>>)>>

Reopening ==
    <<Segment("MoveTo", <<(<<0, 0>>)>>), Segment("LineTo", <<(<<10, 0>>)>>),
      Segment("Close", <<>>), Segment("LineTo", <<(<<20, 0>>)>>)>>

\* The most nodes below the root of a tree that exercises the traversal.
MaxNodes == 4

\* The most nodes below the root of a tree that exercises the paints.
MaxPainted == 2

\* Nodes walk supports: two translating groups and a path filled red.
SupportedPalette ==
    {GroupNode(Translate(10, 0)), GroupNode(Translate(0, 10)),
     PathNode(Some(UFill(Red, 255)), None, OpenLine)}

\* The same, and the three kinds of node walk has no implementation for.
TreePalette ==
    SupportedPalette
    \cup {PathNode(Some(UFill(Gradient, 255)), None, OpenLine), ImageNode, TextNode}

PaintPalette ==
    {GroupNode(Translate(10, 0)), ImageNode, TextNode}
    \cup {PathNode(f, s, Reopening) :
            f \in {None, Some(UFill(Red, 255)), Some(UFill(Green, 128)), Some(UFill(Gradient, 255))},
            s \in {None, Some(UStroke(Blue, 255, 3)), Some(UStroke(Red, 64, 2)),
                   Some(UStroke(Pattern, 255, 3))}}

GroupIds(tree) == {0} \cup {j \in 1..Len(tree) : tree[j].kind = "Group"}

\* The tree with one more node, of `palette`, under any of its groups.
Extensions(tree, palette) ==
    {Append(tree, [proto EXCEPT !.parent = q]) : proto \in palette, q \in GroupIds(tree)}

\* group.children(), in order
RECURSIVE ChildrenFrom(_, _, _)
ChildrenFrom(tree, g, j) ==
    IF j > Len(tree) THEN <<>>
    ELSE (IF tree[j].parent = g THEN <<j>> ELSE <<>>) \o ChildrenFrom(tree, g, j + 1)

\* Fault: the children visited last to first.
RECURSIVE ChildrenDownFrom(_, _, _)
ChildrenDownFrom(tree, g, j) ==
    IF j < 1 THEN <<>>
    ELSE (IF tree[j].parent = g THEN <<j>> ELSE <<>>) \o ChildrenDownFrom(tree, g, j - 1)

Children_Reversed(tree, g) == ChildrenDownFrom(tree, g, Len(tree))

Children(tree, g) == ChildrenFrom(tree, g, 1)

\* group.abs_transform(): usvg has already multiplied in every ancestor's
\* transform; the root group's is the identity.
RECURSIVE abs_transform(_, _)
abs_transform(tree, g) ==
    IF g = 0 THEN TransformIdentity
    ELSE TransformConcat(abs_transform(tree, tree[g].parent), tree[g].transform)

(***************************************************************************)
(* Svg                                                                     *)
(***************************************************************************)
Color(r, g, b, a) == [r |-> r, g |-> g, b |-> b, a |-> a]

\* Fault: red and blue exchanged.
to_brush_SwapsChannels(paint) == Color(paint.blue, paint.green, paint.red, 255)

\* svg.rs:149-154; defined on flat colors, a panic otherwise (BrushPanics)
to_brush(paint) == Color(paint.red, paint.green, paint.blue, 255)

BrushPanics(paint) == paint.kind # "Color"

StrokeWidth(s) == s.width

\* svg.rs:43-51; Stroke::default() has width 1
SvgPath(bez_path, node) ==
    [path |-> bez_path,
     fill |-> IF node.fill = None THEN None ELSE Some(to_brush(node.fill[1].paint)),
     stroke |-> IF node.stroke = None THEN None ELSE Some(to_brush(node.stroke[1].paint)),
     stroked |-> IF node.stroke = None THEN 1 ELSE StrokeWidth(node.stroke[1])]

PathPanics(node) ==
    \/ node.fill # None /\ BrushPanics(node.fill[1].paint)
    \/ node.stroke # None /\ BrushPanics(node.stroke[1].paint)

\* svg.rs:36, the shadowing `transform` of a call of walk on group g
WalkTransform(transform, tree, g) ==
    AffineMul(transform, to_affine(abs_transform(tree, g)))

Frame(g, transform) == [group |-> g, transform |-> transform, next |-> 1]

Top == stack[Len(stack)]

\* The node the for loop of the innermost call visits next.
Visiting(kind) ==
    /\ status = "walking"
    /\ stack # <<>>
    /\ Top.next <= Len(Children(input.tree, Top.group))
    /\ input.tree[Children(input.tree, Top.group)[Top.next]].kind = kind

Current == Children(input.tree, Top.group)[Top.next]

Advanced == [stack EXCEPT ![Len(stack)].next = @ + 1]

\* An unwinding panic: the local Svg of parse is dropped, nothing is returned.
Panic ==
    /\ status' = "panicked"
    /\ stack' = <<>>
    /\ records' = <<>>
    /\ UNCHANGED <<input, origin, result, scene, last_call>>
    /\ UNCHANGED bezVars

\* Fault: an Image child is skipped silently.
WalkImage_Skips ==
    /\ status = "walking"
    /\ stack # <<>>
    /\ stack[Len(stack)].next <= Len(Children(input.tree, stack[Len(stack)].group))
    /\ input.tree[Children(input.tree, stack[Len(stack)].group)[stack[Len(stack)].next]].kind = "Image"
    /\ stack' = [stack EXCEPT ![Len(stack)].next = @ + 1]
    /\ UNCHANGED <<input, status, records, origin, result, scene, last_call>>
    /\ UNCHANGED bezVars

\* svg.rs:30, Tree::from_data(..).expect(..) on bytes that are no SVG
ParseFail ==
    /\ status = "init"
    /\ ~input.ok
    /\ Panic

\* svg.rs:28-31, up to the entry of walk on the root
ParseWalk ==
    /\ status = "init"
    /\ input.ok
    /\ status' = "walking"
    /\ stack' = <<Frame(0, WalkTransform(AffineIdentity, input.tree, 0))>>
    /\ records' = <<>>
    /\ UNCHANGED <<input, origin, result, scene, last_call>>
    /\ UNCHANGED bezVars

\* svg.rs:39
WalkGroup ==
    /\ Visiting("Group")
    /\ stack' = Append(Advanced, Frame(Current, WalkTransform(Top.transform, input.tree, Current)))
    /\ UNCHANGED <<input, status, records, origin, result, scene, last_call>>
    /\ UNCHANGED bezVars

\* svg.rs:40-52
WalkPath ==
    /\ Visiting("Path")
    /\ ~PathPanics(input.tree[Current])
    /\ records' = Append(records,
                         SvgPath(apply_affine(to_bez_path(input.tree[Current].data), Top.transform),
                                 input.tree[Current]))
    /\ origin' = Append(origin, Current)
    /\ stack' = Advanced
    /\ UNCHANGED <<input, status, result, scene, last_call>>
    /\ UNCHANGED bezVars

\* svg.rs:45-46 reaching svg.rs:152
WalkPathUnimplemented ==
    /\ Visiting("Path")
    /\ PathPanics(input.tree[Current])
    /\ Panic

\* svg.rs:53
WalkImage == Visiting("Image") /\ Panic

\* svg.rs:54
WalkText == Visiting("Text") /\ Panic

\* svg.rs:37/57: the for loop of a nested call ends, the call returns
WalkReturn ==
    /\ status = "walking"
    /\ Len(stack) > 1
    /\ Top.next > Len(Children(input.tree, Top.group))
    /\ stack' = SubSeq(stack, 1, Len(stack) - 1)
    /\ UNCHANGED <<input, status, records, origin, result, scene, last_call>>
    /\ UNCHANGED bezVars

\* svg.rs:31-32: the call on the root returns and parse returns s
ParseReturn ==
    /\ status = "walking"
    /\ Len(stack) = 1
    /\ Top.next > Len(Children(input.tree, Top.group))
    /\ stack' = <<>>
    /\ status' = "returned"
    /\ result' = Some(records)
    /\ UNCHANGED <<input, records, origin, scene, last_call>>
    /\ UNCHANGED bezVars

(***************************************************************************)
(* The draw modes.  A request is what the sink's fill or stroke receives:  *)
(* style, transform, brush, the optional fourth argument and the shape.    *)
(***************************************************************************)
FillRequest(transform, brush, shape) ==
    [op |-> "fill", style |-> <<"NonZero">>, transform |-> transform,
     brush |-> brush, brush_transform |-> None, shape |-> shape]

StrokeRequest(stroked, transform, brush, shape) ==
    [op |-> "stroke", style |-> <<"Stroke", stroked>>, transform |-> transform,
     brush |-> brush, brush_transform |-> None, shape |-> shape]

\* Option::or
OptionOr(a, b) == IF a # None THEN a ELSE b

\* Fault: fill falls back to the stroke color.
FillOne_Fallback(svg_path, transform) ==
    IF OptionOr(svg_path.fill, svg_path.stroke) # None
      THEN <<FillRequest(transform, OptionOr(svg_path.fill, svg_path.stroke)[1], svg_path.path)>>
      ELSE <<>>

\* svg.rs:61-63
FillOne(svg_path, transform) ==
    IF svg_path.fill # None
      THEN <<FillRequest(transform, svg_path.fill[1], svg_path.path)>>
      ELSE <<>>

\* Fault: stroke without the fallback to the fill color.
StrokeOne_NoFallback(svg_path, transform) ==
    IF svg_path.stroke # None
      THEN <<StrokeRequest(svg_path.stroked, transform, svg_path.stroke[1], svg_path.path)>>
      ELSE <<>>

\* svg.rs:69-71
StrokeOne(svg_path, transform) ==
    IF OptionOr(svg_path.stroke, svg_path.fill) # None
      THEN <<StrokeRequest(svg_path.stroked, transform,
                           OptionOr(svg_path.stroke, svg_path.fill)[1], svg_path.path)>>
      ELSE <<>>

\* Fault: fill_stroke with the fallback of stroke.
FillStrokeOne_Fallback(svg_path, transform) ==
    FillOne(svg_path, transform) \o StrokeOne(svg_path, transform)

\* svg.rs:77-82
FillStrokeOne(svg_path, transform) ==
    (IF svg_path.fill # None
       THEN <<FillRequest(transform, svg_path.fill[1], svg_path.path)>>
       ELSE <<>>)
    \o (IF svg_path.stroke # None
          THEN <<StrokeRequest(svg_path.stroked, transform, svg_path.stroke[1], svg_path.path)>>
          ELSE <<>>)

\* The transforms callers pass (objects.rs: a translation, or a scale then a
\* translation), with whole coefficients; the draw modes only hand them on.
DrawTransforms == {Affine(1, 0, 0, 1, 3, 4), Affine(2, 0, 0, 2, 1, 1)}

\* The for loops of the three modes, from record i on.
RECURSIVE FillRequests(_, _, _)
FillRequests(svg, i, transform) ==
    IF i > Len(svg) THEN <<>>
    ELSE FillOne(svg[i], transform) \o FillRequests(svg, i + 1, transform)

RECURSIVE StrokeRequests(_, _, _)
StrokeRequests(svg, i, transform) ==
    IF i > Len(svg) THEN <<>>
    ELSE StrokeOne(svg[i], transform) \o StrokeRequests(svg, i + 1, transform)

RECURSIVE FillStrokeRequests(_, _, _)
FillStrokeRequests(svg, i, transform) ==
    IF i > Len(svg) THEN <<>>
    ELSE FillStrokeOne(svg[i], transform) \o FillStrokeRequests(svg, i + 1, transform)

Draw(mode, transform, requests) ==
    /\ status = "returned"
    /\ scene' = requests
    /\ last_call' = Some([mode |-> mode, transform |-> transform])
    /\ UNCHANGED <<input, status, stack, records, origin, result>>
    /\ UNCHANGED bezVars

\* svg.rs:59-65
Fill ==
    \E transform \in DrawTransforms :
        Draw("fill", transform, FillRequests(result[1], 1, transform))

\* svg.rs:67-73
Stroke ==
    \E transform \in DrawTransforms :
        Draw("stroke", transform, StrokeRequests(result[1], 1, transform))

\* svg.rs:75-84
FillStroke ==
    \E transform \in DrawTransforms :
        Draw("fill_stroke", transform, FillStrokeRequests(result[1], 1, transform))

BezIdle ==
    /\ segs = <<>>
    /\ pos = 0
    /\ just_closed = FALSE
    /\ most_recent_initial = <<0, 0>>
    /\ local_path = <<>>
    /\ bez_pc = "idle"

\* The bytes handed to parse are an SVG document or not; a document starts
\* as the bare root group.
InitSvg ==
    /\ input \in {[ok |-> TRUE, tree |-> <<>>], [ok |-> FALSE, tree |-> <<>>]}
    /\ status = "init"
    /\ stack = <<>>
    /\ records = <<>>
    /\ origin = <<>>
    /\ result = None
    /\ scene = <<>>
    /\ last_call = None
    /\ BezIdle

\* The document before parse is called: one more node of `palette`, up to
\* `max` nodes.
DocumentNode(palette, max) ==
    /\ status = "init"
    /\ input.ok
    /\ Len(input.tree) < max
    /\ \E tree \in Extensions(input.tree, palette) : input' = [input EXCEPT !.tree = tree]
    /\ UNCHANGED <<status, stack, records, origin, result, scene, last_call>>
    /\ UNCHANGED bezVars

\* Documents of up to MaxNodes nodes, all supported but possibly the last one
\* (which may hang under any group, so anywhere in the traversal).
TreeNode ==
    /\ \A j \in 1..Len(input.tree) : input.tree[j] \in
          {[proto EXCEPT !.parent = q] : proto \in SupportedPalette, q \in 0..Len(input.tree)}
    /\ DocumentNode(TreePalette, MaxNodes)

\* Documents of up to MaxPainted nodes with every combination of paints.
PaintedNode == DocumentNode(PaintPalette, MaxPainted)

NextWalk ==
    \/ ParseFail \/ ParseWalk
    \/ WalkGroup \/ WalkPath \/ WalkPathUnimplemented \/ WalkImage \/ WalkText
    \/ WalkReturn \/ ParseReturn

NextTree == TreeNode \/ NextWalk

NextPaint == PaintedNode \/ NextWalk \/ Fill \/ Stroke \/ FillStroke

\* Flattening alone, on documents that exercise the traversal.
SpecTree == InitSvg /\ [][NextTree]_vars

\* Flattening and drawing, on documents that exercise the paints.
SpecPaint == InitSvg /\ [][NextPaint]_vars

(***************************************************************************)
(* Properties of to_bez_path.  They speak of the input stream by position  *)
(* only, never through the scan's own state.                               *)
(***************************************************************************)
\* The outline element an input command stands for.
ElOf(seg) ==
    PathEl(CASE seg.kind = "MoveTo"  -> "MoveTo"
             [] seg.kind = "LineTo"  -> "LineTo"
             [] seg.kind = "QuadTo"  -> "QuadTo"
             [] seg.kind = "CubicTo" -> "CurveTo"
             [] seg.kind = "Close"   -> "ClosePath",
           seg.pts)

IsDraw(seg) == seg.kind \in {"LineTo", "QuadTo", "CubicTo"}

\* The point of the last MoveTo among the first n commands, the origin when
\* there is none.
LastMoveToPoint(s, n) ==
    LET M == {j \in 1..n : s[j].kind = "MoveTo"}
    IN  IF M = {} THEN <<0, 0>> ELSE s[Max(M)].pts[1]

\* The commands, among the first n, that directly follow a Close and are not
\* themselves a Close.
AfterClose(s, n) == {j \in 2..n : s[j - 1].kind = "Close" /\ s[j].kind # "Close"}

\* Where command i lands in the outline.
OutIndex(s, i) == i + Cardinality(AfterClose(s, i))

ExpectedOutline(s, n) ==
    [k \in 1..(n + Cardinality(AfterClose(s, n))) |->
        IF \E i \in 1..n : OutIndex(s, i) = k
          THEN ElOf(s[CHOOSE i \in 1..n : OutIndex(s, i) = k])
          ELSE LET i == CHOOSE j \in AfterClose(s, n) : OutIndex(s, j) = k + 1
               IN  PathEl("MoveTo", <<LastMoveToPoint(s, i - 1)>>)]

ReopenExample ==
    <<Segment("MoveTo", <<(<<0, 0>>)>>), Segment("LineTo", <<(<<10, 0>>)>>),
      Segment("Close", <<>>), Segment("LineTo", <<(<<20, 0>>)>>)>>

ReopenExampleOutline ==
    <<PathEl("MoveTo", <<(<<0, 0>>)>>), PathEl("LineTo", <<(<<10, 0>>)>>),
      PathEl("ClosePath", <<>>), PathEl("MoveTo", <<(<<0, 0>>)>>),
      PathEl("LineTo", <<(<<20, 0>>)>>)>>

\* C1: when a LineTo, QuadTo or CubicTo directly follows a Close, the outline
\* holds, directly after the ClosePath and directly before that segment, a
\* MoveTo to the point of the most recent input MoveTo (the origin when the
\* stream has had none); the stream MoveTo(0,0), LineTo(10,0), Close,
\* LineTo(20,0) yields MoveTo(0,0), LineTo(10,0), ClosePath, MoveTo(0,0),
\* LineTo(20,0).
C1_ImplicitReopen ==
    /\ \A i \in 2..pos :
          (segs[i - 1].kind = "Close" /\ IsDraw(segs[i])) =>
              LET k == OutIndex(segs, i)
              IN  /\ k <= Len(local_path)
                  /\ local_path[k] = ElOf(segs[i])
                  /\ local_path[k - 1] = PathEl("MoveTo", <<LastMoveToPoint(segs, i)>>)
                  /\ local_path[k - 2] = PathEl("ClosePath", <<>>)
                  /\ k - 2 = OutIndex(segs, i - 1)
    /\ (bez_pc = "returned" /\ segs = ReopenExample) => local_path = ReopenExampleOutline

C1_Witness ==
    /\ bez_pc = "returned"
    /\ \E i \in 2..Len(segs) :
          /\ segs[i - 1].kind = "Close"
          /\ IsDraw(segs[i])
          /\ LastMoveToPoint(segs, i) = <<10, 0>>
          /\ local_path[OutIndex(segs, i) - 1] = PathEl("MoveTo", <<(<<10, 0>>)>>)

\* C9: after each command, just_closed is true exactly when that command was a
\* Close, and most_recent_initial is the point of the last MoveTo processed so
\* far, (0,0) when there is none; LineTo, QuadTo, CubicTo and Close never
\* change most_recent_initial.
C9_ScanState ==
    /\ (pos = 0) => ~just_closed
    /\ (pos >= 1) => (just_closed <=> segs[pos].kind = "Close")
    /\ most_recent_initial = LastMoveToPoint(segs, pos)
    /\ (pos >= 1 /\ segs[pos].kind # "MoveTo") =>
          most_recent_initial = LastMoveToPoint(segs, pos - 1)

C9_Witness ==
    /\ pos >= 3
    /\ segs[pos - 2].kind = "MoveTo"
    /\ segs[pos - 1].kind = "Close"
    /\ segs[pos].kind = "MoveTo"
    /\ segs[pos].pts # segs[pos - 2].pts
    /\ ~just_closed
    /\ most_recent_initial = segs[pos].pts[1]

\* C10: the outline is the input commands in order with exactly one extra
\* MoveTo(most_recent_initial) after each Close that a non-Close command
\* directly follows (an explicit MoveTo included), nothing else added or
\* removed; its length is the input's plus the number of such Closes, and no
\* LineTo, QuadTo or CurveTo directly follows a ClosePath in it.
C10_OutlineShape ==
    /\ local_path = ExpectedOutline(segs, pos)
    /\ Len(local_path) = pos + Cardinality(AfterClose(segs, pos))
    /\ \A k \in 2..Len(local_path) :
          local_path[k - 1].el = "ClosePath" =>
              local_path[k].el \notin {"LineTo", "QuadTo", "CurveTo"}

C10_Witness ==
    /\ bez_pc = "returned"
    /\ \E i \in 3..Len(segs) :
          /\ segs[i - 1].kind = "Close"
          /\ segs[i].kind = "MoveTo"
          /\ LastMoveToPoint(segs, i - 1) # segs[i].pts[1]
          /\ local_path[OutIndex(segs, i) - 1].el = "MoveTo"
          /\ local_path[OutIndex(segs, i) - 1] # local_path[OutIndex(segs, i)]
    /\ Len(local_path) > Len(segs)

(***************************************************************************)
(* Properties of Svg::parse and Svg::walk                                  *)
(***************************************************************************)
\* The nodes from the root down to node i, i included.
RECURSIVE Chain(_, _)
Chain(tree, i) == IF i = 0 THEN <<>> ELSE Append(Chain(tree, tree[i].parent), i)

\* Node a comes before node b in the depth-first pre-order of the tree: a is
\* an ancestor of b, or where their chains part a's side is the earlier child.
PreOrderBefore(tree, a, b) ==
    LET ca == Chain(tree, a)
        cb == Chain(tree, b)
    IN  \/ Len(ca) < Len(cb) /\ SubSeq(cb, 1, Len(ca)) = ca
        \/ \E k \in 1..Len(ca) :
              /\ k <= Len(cb)
              /\ SubSeq(ca, 1, k - 1) = SubSeq(cb, 1, k - 1)
              /\ ca[k] < cb[k]

PathNodes(tree) == {j \in 1..Len(tree) : tree[j].kind = "Path"}

FlatOrAbsent(paint) == paint = None \/ paint[1].paint.kind = "Color"

Unsupported(node) ==
    \/ node.kind \in {"Image", "Text"}
    \/ node.kind = "Path" /\ ~(FlatOrAbsent(node.fill) /\ FlatOrAbsent(node.stroke))

HasUnsupported(tree) == \E j \in 1..Len(tree) : Unsupported(tree[j])

Parsing == input.ok /\ status # "init"

\* The innermost call of walk has a next step: a child of one of the four
\* kinds to visit, or the end of its loop.
WalkCanStep ==
    /\ stack # <<>>
    /\ \/ Top.next > Len(Children(input.tree, Top.group))
       \/ input.tree[Current].kind \in {"Group", "Path", "Image", "Text"}

\* C2: every group's transform reaches a descendant path exactly once: the
\* outline of a record is the path's own outline under the product of its
\* ancestors' transforms, so that a path at (0,0) under a group translating by
\* (10,0) and, in it, a group translating by (0,10) is recorded at (10,10).
C2_ComposedTransform ==
    status = "returned" =>
        \A k \in 1..Len(records) :
            LET node == input.tree[origin[k]]
            IN  records[k].path =
                    apply_affine(to_bez_path(node.data),
                                 to_affine(abs_transform(input.tree, node.parent)))

\* C3: on a tree of Group and Path nodes with flat or absent paints, walk
\* never fails and goes on until parse returns; the records then correspond
\* one to one, in order, to the Path nodes in depth-first pre-order.
C3_PreOrderRecords ==
    (Parsing /\ ~HasUnsupported(input.tree)) =>
        /\ status # "panicked"
        /\ status = "walking" => WalkCanStep
        /\ Len(records) = Len(origin)
        /\ \A k \in 1..Len(origin) : origin[k] \in PathNodes(input.tree)
        /\ \A k, m \in 1..Len(origin) :
              k < m => PreOrderBefore(input.tree, origin[k], origin[m])
        /\ status = "returned" =>
              /\ result = Some(records)
              /\ Len(records) = Cardinality(PathNodes(input.tree))
              /\ {origin[k] : k \in 1..Len(origin)} = PathNodes(input.tree)

C3_Witness ==
    /\ status = "returned"
    /\ Len(records) >= 2
    /\ \E j \in PathNodes(input.tree) : Len(Chain(input.tree, j)) >= 3
    /\ \E j \in PathNodes(input.tree) : input.tree[j].parent = 0
    /\ origin[1] > origin[2]

\* C4: when the tree holds an Image, a Text or a Path with a paint that is no
\* flat color, parse never returns: it goes on to a panic, the caller holds no
\* Svg and no draw request is ever issued, however many paths were appended
\* before.
C4_UnsupportedIsFatal ==
    (Parsing /\ HasUnsupported(input.tree)) =>
        /\ status \in {"walking", "panicked"}
        /\ status = "walking" => WalkCanStep
        /\ status = "panicked" => (stack = <<>> /\ records = <<>>)
        /\ result = None
        /\ scene = <<>>

C4_Witness ==
    /\ status = "panicked"
    /\ input.ok
    /\ Len(origin) >= 2
    /\ result = None

\* C8: a record's fill (stroke) is None iff the node declares no fill (stroke);
\* a flat color keeps its red, green and blue and gets alpha 255, whatever the
\* opacity of the source paint.
Resolved(paint, color) ==
    /\ color = None <=> paint = None
    /\ (paint # None /\ paint[1].paint.kind = "Color") =>
          color = Some([r |-> paint[1].paint.red, g |-> paint[1].paint.green,
                        b |-> paint[1].paint.blue, a |-> 255])

C8_PaintResolution ==
    \A k \in 1..Len(records) :
        /\ Resolved(input.tree[origin[k]].fill, records[k].fill)
        /\ Resolved(input.tree[origin[k]].stroke, records[k].stroke)

C8_Witness ==
    \E k \in 1..Len(records) :
        /\ input.tree[origin[k]].fill # None
        /\ input.tree[origin[k]].fill[1].opacity < 255
        /\ records[k].fill = Some([r |-> 0, g |-> 128, b |-> 0, a |-> 255])
        /\ input.tree[origin[k]].stroke = None
        /\ records[k].stroke = None

(***************************************************************************)
(* Properties of the draw modes                                            *)
(***************************************************************************)
Called(mode) == last_call # None /\ last_call[1].mode = mode

\* How many members of S are at most i.
Rank(S, i) == Cardinality({j \in S : j <= i})

Has(o) == IF o # None THEN 1 ELSE 0

\* The requests fill_stroke issues for the records before record i.
RECURSIVE Offset(_, _)
Offset(svg, i) ==
    IF i <= 1 THEN 0 ELSE Offset(svg, i - 1) + Has(svg[i - 1].fill) + Has(svg[i - 1].stroke)

ExpectedFill(rec) ==
    [op |-> "fill", style |-> <<"NonZero">>, transform |-> last_call[1].transform,
     brush |-> rec.fill[1], brush_transform |-> None, shape |-> rec.path]

ExpectedStroke(rec, brush) ==
    [op |-> "stroke", style |-> <<"Stroke", rec.stroked>>,
     transform |-> last_call[1].transform,
     brush |-> brush, brush_transform |-> None, shape |-> rec.path]

\* C5: fill_stroke visits the records in order and issues for each a fill
\* request iff fill is Some, then a stroke request iff stroke is Some, with
\* the stroke color only: never the fill color as a fallback.
C5_FillStrokeOrder ==
    Called("fill_stroke") =>
        /\ Len(scene) = Offset(records, Len(records) + 1)
        /\ \A i \in 1..Len(records) :
              /\ records[i].fill # None =>
                    scene[Offset(records, i) + 1] = ExpectedFill(records[i])
              /\ records[i].stroke # None =>
                    scene[Offset(records, i) + Has(records[i].fill) + 1]
                        = ExpectedStroke(records[i], records[i].stroke[1])

C5_Witness ==
    /\ Called("fill_stroke")
    /\ Len(records) = 2
    /\ records[1].fill # None /\ records[1].stroke # None
    /\ records[2].fill # None /\ records[2].stroke = None
    /\ Len(scene) = 3
    /\ scene[3].op = "fill"

\* C6: stroke issues, in order, one stroke request for each record that has a
\* stroke or a fill color and none for a record with neither; the color is the
\* stroke color when present, else the fill color; the request carries the
\* record's stroke style and the caller's transform; no fill request.
C6_StrokeFallback ==
    Called("stroke") =>
        LET S == {i \in 1..Len(records) : records[i].stroke # None \/ records[i].fill # None}
        IN  /\ Len(scene) = Cardinality(S)
            /\ \A i \in S :
                  scene[Rank(S, i)] =
                      ExpectedStroke(records[i],
                                     IF records[i].stroke # None
                                       THEN records[i].stroke[1]
                                       ELSE records[i].fill[1])
            /\ \A k \in 1..Len(scene) : scene[k].op # "fill"

C6_Witness ==
    /\ Called("stroke")
    /\ Len(records) = 2
    /\ records[1].fill = None /\ records[1].stroke = None
    /\ records[2].fill # None /\ records[2].stroke = None
    /\ Len(scene) = 1
    /\ scene[1].brush = records[2].fill[1]

\* C7: fill issues, in order, one non-zero fill request (the record's fill
\* color, the caller's transform, None as fourth argument) for each record
\* whose fill is Some, none for the others, and no stroke request.
C7_FillOnly ==
    Called("fill") =>
        LET S == {i \in 1..Len(records) : records[i].fill # None}
        IN  /\ Len(scene) = Cardinality(S)
            /\ \A i \in S : scene[Rank(S, i)] = ExpectedFill(records[i])
            /\ \A k \in 1..Len(scene) : scene[k].op # "stroke"

C7_Witness ==
    /\ Called("fill")
    /\ Len(records) = 2
    /\ records[1].fill = None /\ records[1].stroke # None
    /\ records[2].fill # None /\ records[2].stroke # None
    /\ Len(scene) = 1

====
